---- MODULE Spec2Model ----
(***************************************************************************)
(* Bookstore inventory simulation (q17_bookstore_simulation.py).            *)
(*                                                                          *)
(* calculate_profit is a pure function of (stock, demand);                  *)
(* run_bookstore_simulation drives one numpy Generator through a day loop,  *)
(* two weighted-categorical draws per day, and aggregates the records.      *)
(*                                                                          *)
(* Probabilities are kept in hundredths (every table entry of the source    *)
(* is a multiple of 0.01), and a uniform draw u in [0,1) is kept as the     *)
(* integer floor(100*u) in 0..99.  Floating-point results (the averages)    *)
(* are kept as IEEE-754 binary64 values: sign, exponent, 53 significand     *)
(* bits, computed by correctly rounded long division / multiplication.      *)
(***************************************************************************)
EXTENDS Integers, Sequences, FiniteSets, TLC

VARIABLES
    pc,              \* position of the caller / of run_bookstore_simulation
    stock_quantity,  \* argument of the current call
    num_days,        \* argument of the current call
    random_seed,     \* argument of the current call: <<>> is None, <<s>> is the integer s
    rng,             \* state of the Generator created at line 113
    rng0,            \* the state that Generator was created with
    day,             \* loop variable of line 118 (0 before the first iteration)
    day_type,        \* local of line 120
    demand,          \* local of line 123
    daily_results,   \* list built at lines 115, 129
    total_profit,    \* accumulator of lines 116, 143
    result,          \* <<>> or <<the returned dictionary>>
    error,           \* "" or the name of the exception that left the call
    ncalls,          \* calls made so far
    prev,            \* <<>> or <<the previous call's arguments and outcome>>
    forced_stock,    \* direct call of calculate_profit: stock
    forced_demand,   \* direct call of calculate_profit: demand
    breakdown        \* <<>> or <<what that direct call returned>>

vars == <<pc, stock_quantity, num_days, random_seed, rng, rng0, day, day_type,
          demand, daily_results, total_profit, result, error, ncalls, prev,
          forced_stock, forced_demand, breakdown>>

simVars == <<pc, stock_quantity, num_days, random_seed, rng, rng0, day, day_type,
             demand, daily_results, total_profit, result, error, ncalls, prev>>

unitVars == <<forced_stock, forced_demand, breakdown>>

----------------------------------------------------------------------------
(* Bounds of the model *)

\* direct calls of calculate_profit use stock, demand in 0..MaxQty
MaxQty == 110
\* simulated stock quantities are StockStep * k, k in -NegStockUnits..MaxStockUnits
StockStep == 10
NegStockUnits == 1
MaxStockUnits == 12
\* num_days ranges over -NegDays..MaxDays
NegDays == 1
MaxDays == 7
\* integer seeds 0..MaxSeed; OS entropy for an absent seed 0..MaxEntropy
MaxSeed == 49
MaxEntropy == 3
\* the two-call specification uses its own, smaller, argument sets
RerunStockUnits == 2
RerunMaxDays == 3
RerunMaxSeed == 2

Stocks == {StockStep * k : k \in (0 - NegStockUnits)..MaxStockUnits}
Days == (0 - NegDays)..MaxDays
Seeds == {<<>>} \cup {<<s>> : s \in 0..MaxSeed}
Entropy == 0..MaxEntropy
RerunStocks == {90 + StockStep * k : k \in 0..RerunStockUnits}
RerunDays == 0..RerunMaxDays
RerunSeeds == {<<>>} \cup {<<s>> : s \in 0..RerunMaxSeed}

----------------------------------------------------------------------------
(* Financial parameters, lines 4-9 *)

BOOK_COST == 15
SELLING_PRICE == 25
RETURN_VALUE == 5
PROFIT_PER_SALE == SELLING_PRICE - BOOK_COST
LOSS_PER_UNSOLD == BOOK_COST - RETURN_VALUE
LOST_PROFIT_PER_BOOK == PROFIT_PER_SALE

(* Day type probabilities, lines 12-16, in hundredths; the key order is the
   dictionary's insertion order *)
DAY_TYPE_PROBS == [High |-> 40, Medium |-> 30, Low |-> 30]
DayTypeKeys == <<"High", "Medium", "Low">>

(* Demand distributions, lines 19-47, in hundredths *)
DemandKeys == <<50, 60, 70, 80, 90, 100, 110>>
DEMAND_DISTRIBUTIONS ==
    [High   |-> (50 :> 5  @@ 60 :> 7  @@ 70 :> 10 @@ 80 :> 20 @@ 90 :> 30 @@ 100 :> 15 @@ 110 :> 13),
     Medium |-> (50 :> 12 @@ 60 :> 16 @@ 70 :> 30 @@ 80 :> 20 @@ 90 :> 8  @@ 100 :> 6  @@ 110 :> 8),
     Low    |-> (50 :> 30 @@ 60 :> 20 @@ 70 :> 6  @@ 80 :> 12 @@ 90 :> 13 @@ 100 :> 9  @@ 110 :> 10)]

Min(a, b) == IF a <= b THEN a ELSE b
Max(a, b) == IF a >= b THEN a ELSE b

----------------------------------------------------------------------------
(* calculate_profit, lines 64-98 *)

\* variants of calculate_profit with one line changed: the return credit
\* left out of the profit; the cost charged on the books sold; the revenue
\* taken on the whole demand; the unsold count taken as |stock - demand|
calculate_profit_no_return_credit(stock, dem) ==
    LET sold == Min(stock, dem)
        unsold == Max(0, stock - dem)
        lost_sales == Max(0, dem - stock)
        revenue == sold * SELLING_PRICE
        cost == stock * BOOK_COST
        return_value == unsold * RETURN_VALUE
        lost_profit == lost_sales * LOST_PROFIT_PER_BOOK
    IN  [sold |-> sold, unsold |-> unsold, lost_sales |-> lost_sales,
         revenue |-> revenue, cost |-> cost, return_value |-> return_value,
         lost_profit |-> lost_profit,
         profit |-> revenue - cost - lost_profit]

calculate_profit_cost_of_sold(stock, dem) ==
    LET sold == Min(stock, dem)
        unsold == Max(0, stock - dem)
        lost_sales == Max(0, dem - stock)
        revenue == sold * SELLING_PRICE
        cost == sold * BOOK_COST
        return_value == unsold * RETURN_VALUE
        lost_profit == lost_sales * LOST_PROFIT_PER_BOOK
    IN  [sold |-> sold, unsold |-> unsold, lost_sales |-> lost_sales,
         revenue |-> revenue, cost |-> cost, return_value |-> return_value,
         lost_profit |-> lost_profit,
         profit |-> revenue - cost + return_value - lost_profit]

calculate_profit_demand_sold(stock, dem) ==
    LET sold == dem
        unsold == Max(0, stock - dem)
        lost_sales == Max(0, dem - stock)
        revenue == sold * SELLING_PRICE
        cost == stock * BOOK_COST
        return_value == unsold * RETURN_VALUE
        lost_profit == lost_sales * LOST_PROFIT_PER_BOOK
    IN  [sold |-> sold, unsold |-> unsold, lost_sales |-> lost_sales,
         revenue |-> revenue, cost |-> cost, return_value |-> return_value,
         lost_profit |-> lost_profit,
         profit |-> revenue - cost + return_value - lost_profit]

calculate_profit_unsold_abs(stock, dem) ==
    LET sold == Min(stock, dem)
        unsold == IF stock >= dem THEN stock - dem ELSE dem - stock
        lost_sales == Max(0, dem - stock)
        revenue == sold * SELLING_PRICE
        cost == stock * BOOK_COST
        return_value == unsold * RETURN_VALUE
        lost_profit == lost_sales * LOST_PROFIT_PER_BOOK
    IN  [sold |-> sold, unsold |-> unsold, lost_sales |-> lost_sales,
         revenue |-> revenue, cost |-> cost, return_value |-> return_value,
         lost_profit |-> lost_profit,
         profit |-> revenue - cost + return_value - lost_profit]

calculate_profit(stock, dem) ==
    LET sold == Min(stock, dem)
        unsold == Max(0, stock - dem)
        lost_sales == Max(0, dem - stock)
        revenue == sold * SELLING_PRICE
        cost == stock * BOOK_COST
        return_value == unsold * RETURN_VALUE
        lost_profit == lost_sales * LOST_PROFIT_PER_BOOK
        profit == revenue - cost + return_value - lost_profit
    IN  [sold |-> sold, unsold |-> unsold, lost_sales |-> lost_sales,
         revenue |-> revenue, cost |-> cost, return_value |-> return_value,
         lost_profit |-> lost_profit, profit |-> profit]

----------------------------------------------------------------------------
(* IEEE-754 binary64 arithmetic, as used by total_profit / num_days
   (line 150) and by np.mean (lines 146-149).  A value is
   [kind, neg, exp, mant]: kind "nan", "zero" or "num"; for "num" the value
   is (-1)^neg * 1.mant[2]mant[3]...mant[53] * 2^exp, mant[1] = 1. *)

MantBits == 53

Abs(x) == IF x < 0 THEN 0 - x ELSE x

NaN == [kind |-> "nan", neg |-> FALSE, exp |-> 0, mant |-> <<>>]
Zero(neg) == [kind |-> "zero", neg |-> neg, exp |-> 0, mant |-> <<>>]
Num(neg, exp, mant) == [kind |-> "num", neg |-> neg, exp |-> exp, mant |-> mant]

\* number of binary digits of n, 0 <= n < 2^30
BitLength(n) == CHOOSE k \in 0..30 : n < 2 ^ k /\ (k = 0 \/ 2 ^ (k - 1) <= n)

\* the low w binary digits of n, most significant first
ToBits(n, w) == [j \in 1..w |-> (n \div 2 ^ (w - j)) % 2]

\* binary digits of n, most significant first, no leading zero
Binary(n) == ToBits(n, BitLength(n))

\* the integer whose binary digits are bits[lo..hi]
RECURSIVE BitsValue(_, _, _)
BitsValue(bits, lo, hi) ==
    IF lo > hi THEN 0 ELSE bits[hi] + 2 * BitsValue(bits, lo, hi - 1)

\* 2^i mod d, by repeated squaring
RECURSIVE Pow2Mod(_, _)
Pow2Mod(i, d) ==
    IF i = 0 THEN 1 % d
    ELSE LET h == Pow2Mod(i \div 2, d)
         IN  (((h * h) % d) * (IF i % 2 = 1 THEN 2 ELSE 1)) % d

\* bits plus one (bit i flips when every lower bit is 1)
Increment(bits) ==
    [i \in 1..Len(bits) |->
        IF \A j \in (i + 1)..Len(bits) : bits[j] = 1 THEN 1 - bits[i] ELSE bits[i]]

\* bits minus one (bit i flips when every lower bit is 0)
Decrement(bits) ==
    [i \in 1..Len(bits) |->
        IF \A j \in (i + 1)..Len(bits) : bits[j] = 0 THEN 1 - bits[i] ELSE bits[i]]

\* a significand rounded to nearest: up adds one unit in the last place
RoundedNum(neg, exp, mant, up) ==
    IF ~up THEN Num(neg, exp, mant)
    ELSE IF \A i \in 1..Len(mant) : mant[i] = 1
         THEN Num(neg, exp + 1, [i \in 1..Len(mant) |-> IF i = 1 THEN 1 ELSE 0])
         ELSE Num(neg, exp, Increment(mant))

\* an integer of magnitude below 2^30 converts exactly
IntToFloat(t) ==
    IF t = 0 THEN Zero(FALSE)
    ELSE LET b == Binary(Abs(t))
         IN  Num(t < 0, Len(b) - 1,
                 [i \in 1..MantBits |-> IF i <= Len(b) THEN b[i] ELSE 0])

\* the correctly rounded (nearest, ties to even) quotient t / n of two
\* integers, n # 0: the binary expansion of |t| / |n| is the digits of the
\* integer part followed by the fraction digits of the long division
TrueDivide(t, n) ==
    IF t = 0 THEN Zero(n < 0)
    ELSE LET a == Abs(t)
             b == Abs(n)
             ibits == Binary(a \div b)
             r == a % b
             FracBit(i) == (2 * ((r * Pow2Mod(i - 1, b)) % b)) \div b
             Q(j) == IF j <= Len(ibits) THEN ibits[j] ELSE FracBit(j - Len(ibits))
             p == IF ibits # <<>> THEN 1
                  ELSE CHOOSE j \in 1..30 :
                          FracBit(j) = 1 /\ \A i \in 1..(j - 1) : FracBit(i) = 0
             mant == [i \in 1..MantBits |-> Q(p + i - 1)]
             rest == (r * Pow2Mod(p + MantBits - Len(ibits), b)) % b
             up == /\ Q(p + MantBits) = 1
                   /\ (rest # 0 \/ mant[MantBits] = 1)
         IN  RoundedNum((t < 0) # (n < 0), Len(ibits) - p, mant, up)

\* the correctly rounded product x * n of a binary64 and an integer
\* (|n| < 2^12): the significand is multiplied in three limbs
MultiplyInt(x, n) ==
    IF x.kind = "nan" THEN NaN
    ELSE IF x.kind = "zero" \/ n = 0 THEN Zero(x.neg # (n < 0))
    ELSE LET m == Abs(n)
             c0 == BitsValue(x.mant, 36, 53) * m
             c1 == BitsValue(x.mant, 18, 35) * m + c0 \div 2 ^ 18
             c2 == BitsValue(x.mant, 1, 17) * m + c1 \div 2 ^ 18
             p == Binary(c2) \o ToBits(c1 % 2 ^ 18, 18) \o ToBits(c0 % 2 ^ 18, 18)
             L == Len(p)
             kept == SubSeq(p, 1, MantBits)
             up == /\ L > MantBits
                   /\ p[MantBits + 1] = 1
                   /\ \/ kept[MantBits] = 1
                      \/ \E j \in (MantBits + 2)..L : p[j] = 1
         IN  RoundedNum(x.neg # (n < 0), x.exp + L - MantBits, kept, up)

\* the binary64 neighbours of a nonzero value, away from and towards zero
NextUp(x) == RoundedNum(x.neg, x.exp, x.mant, TRUE)
NextDown(x) ==
    IF \A i \in 2..MantBits : x.mant[i] = 0
    THEN Num(x.neg, x.exp - 1, [i \in 1..MantBits |-> 1])
    ELSE Num(x.neg, x.exp, Decrement(x.mant))

\* sum(xs[i][f]) over a list of dictionaries
RECURSIVE SumField(_, _)
SumField(xs, f) ==
    IF xs = <<>> THEN 0 ELSE xs[1][f] + SumField(Tail(xs), f)

\* np.mean([d[f] for d in xs]): nan (with a warning) for an empty list
mean(xs, f) ==
    IF xs = <<>> THEN NaN
    ELSE TrueDivide(SumField(xs, f), Len(xs))

----------------------------------------------------------------------------
(* The numpy Generator of line 113.  Its state space is abstracted to
   0..RngModulus-1 and its transition to a full-period congruential step
   (PCG64 is a congruential generator with an output permutation); one
   uniform draw advances the state once and yields floor(100*u). *)

RngModulus == 100
RngMultiplier == 21
RngIncrement == 7

\* np.random.default_rng(None) ignores the seed argument and takes OS entropy
default_rng_unseeded(seed, entropy) == entropy % RngModulus

\* np.random.default_rng(seed): OS entropy when seed is None
default_rng(seed, entropy) ==
    IF seed = <<>> THEN entropy % RngModulus ELSE seed[1] % RngModulus

\* Generator.random(): the next state and the uniform draw it yields
random(g) ==
    LET n == (RngMultiplier * g + RngIncrement) % RngModulus
    IN  [u |-> n, rng |-> n]

\* cumulative sum of probs over keys[1..i]
RECURSIVE Cdf(_, _, _)
Cdf(keys, probs, i) == IF i = 0 THEN 0 ELSE Cdf(keys, probs, i - 1) + probs[keys[i]]

\* Generator.choice(keys, p=probs) on the uniform draw u:
\* keys[cdf.searchsorted(u, side='right')]
choice(keys, probs, u) ==
    keys[Cardinality({i \in 1..Len(keys) : Cdf(keys, probs, i) <= u}) + 1]

\* sample_day_type, lines 50-54
sample_day_type(g) ==
    LET d == random(g)
    IN  [value |-> choice(DayTypeKeys, DAY_TYPE_PROBS, d.u), rng |-> d.rng]

\* a sampler that creates a fresh default_rng(0) on every call
sample_demand_reseeded(dt, g) ==
    LET d == random(default_rng(<<0>>, 0))
    IN  [value |-> choice(DemandKeys, DEMAND_DISTRIBUTIONS[dt], d.u), rng |-> d.rng]

\* sample_demand, lines 57-61
sample_demand(dt, g) ==
    LET d == random(g)
    IN  [value |-> choice(DemandKeys, DEMAND_DISTRIBUTIONS[dt], d.u), rng |-> d.rng]

----------------------------------------------------------------------------
(* run_bookstore_simulation, lines 101-162 *)

\* range(1, num_days) stops one day early
DayRange_short(n) == 1..(n - 1)

\* range(1, num_days + 1), line 118
DayRange(n) == 1..n

\* the dictionary appended at lines 129-141
DailyRecord(d, dt, dem, p) ==
    [day |-> d, day_type |-> dt, demand |-> dem,
     sold |-> p.sold, unsold |-> p.unsold, lost_sales |-> p.lost_sales,
     revenue |-> p.revenue, cost |-> p.cost, return_value |-> p.return_value,
     lost_profit |-> p.lost_profit, profit |-> p.profit]

\* total_profit = day_profit['profit'] overwrites the accumulator
Accumulate_overwrite(total, p) == p.profit

\* total_profit += day_profit['profit'], line 143
Accumulate(total, p) == total + p.profit

\* total_profit / num_days, line 150 (n # 0)
AverageProfit(total, n) == TrueDivide(total, n)

\* the dictionary returned at lines 152-162
Summary(stock, n, total, results) ==
    [stock_quantity |-> stock,
     num_days |-> n,
     total_profit |-> total,
     avg_profit_per_day |-> AverageProfit(total, n),
     avg_demand |-> mean(results, "demand"),
     avg_sold |-> mean(results, "sold"),
     avg_unsold |-> mean(results, "unsold"),
     avg_lost_sales |-> mean(results, "lost_sales"),
     daily_results |-> results]

Finished == {"returned", "raised"}

\* a caller invokes run_bookstore_simulation(stock, days, seed); lines 101-116.
\* The previous call's arguments and outcome are kept for comparison.
CanCall(limit) == pc \in {"idle"} \cup Finished /\ ncalls < limit

Call(stock, days, seed, entropy, limit) ==
    /\ CanCall(limit)
    /\ prev' = IF pc = "idle" THEN <<>>
               ELSE <<[stock_quantity |-> stock_quantity, num_days |-> num_days,
                       random_seed |-> random_seed, pc |-> pc,
                       result |-> result, error |-> error]>>
    /\ ncalls' = ncalls + 1
    /\ stock_quantity' = stock
    /\ num_days' = days
    /\ random_seed' = seed
    /\ rng' = default_rng(seed, entropy)
    /\ rng0' = rng'
    /\ daily_results' = <<>>
    /\ total_profit' = 0
    /\ day' = 0
    /\ day_type' = ""
    /\ demand' = 0
    /\ result' = <<>>
    /\ error' = ""
    /\ pc' = "for"
    /\ UNCHANGED unitVars

\* lines 118-120: the loop yields the next day and the day type is drawn
SampleDayType ==
    /\ pc = "for"
    /\ day + 1 \in DayRange(num_days)
    /\ day' = day + 1
    /\ LET s == sample_day_type(rng)
       IN  /\ day_type' = s.value
           /\ rng' = s.rng
    /\ pc' = "demand"
    /\ UNCHANGED <<stock_quantity, num_days, random_seed, rng0, demand,
                   daily_results, total_profit, result, error, ncalls, prev>>
    /\ UNCHANGED unitVars

\* line 123: the demand is drawn from the day type's distribution
SampleDemand ==
    /\ pc = "demand"
    /\ LET s == sample_demand(day_type, rng)
       IN  /\ demand' = s.value
           /\ rng' = s.rng
    /\ pc' = "record"
    /\ UNCHANGED <<stock_quantity, num_days, random_seed, rng0, day, day_type,
                   daily_results, total_profit, result, error, ncalls, prev>>
    /\ UNCHANGED unitVars

\* lines 126-143: the day's profit is computed, recorded and accumulated
RecordDay ==
    /\ pc = "record"
    /\ LET day_profit == calculate_profit(stock_quantity, demand)
       IN  /\ daily_results' =
                Append(daily_results, DailyRecord(day, day_type, demand, day_profit))
           /\ total_profit' = Accumulate(total_profit, day_profit)
    /\ pc' = "for"
    /\ UNCHANGED <<stock_quantity, num_days, random_seed, rng, rng0, day, day_type,
                   demand, result, error, ncalls, prev>>
    /\ UNCHANGED unitVars

\* lines 146-162: the loop is exhausted, the averages are computed and the
\* dictionary is returned
ReturnResult ==
    /\ pc = "for"
    /\ day + 1 \notin DayRange(num_days)
    /\ num_days # 0
    /\ result' = <<Summary(stock_quantity, num_days, total_profit, daily_results)>>
    /\ pc' = "returned"
    /\ UNCHANGED <<stock_quantity, num_days, random_seed, rng, rng0, day, day_type,
                   demand, daily_results, total_profit, error, ncalls, prev>>
    /\ UNCHANGED unitVars

\* line 150 with num_days = 0: total_profit is still the int 0 of line 116,
\* and 0 / 0 raises ZeroDivisionError out of the call
RaiseZeroDivision ==
    /\ pc = "for"
    /\ day + 1 \notin DayRange(num_days)
    /\ num_days = 0
    /\ error' = "ZeroDivisionError"
    /\ pc' = "raised"
    /\ UNCHANGED <<stock_quantity, num_days, random_seed, rng, rng0, day, day_type,
                   demand, daily_results, total_profit, result, ncalls, prev>>
    /\ UNCHANGED unitVars

\* a direct call calculate_profit(forced_stock, forced_demand), lines 64-98
CalculateProfit ==
    /\ breakdown = <<>>
    /\ breakdown' = <<calculate_profit(forced_stock, forced_demand)>>
    /\ UNCHANGED <<forced_stock, forced_demand>>
    /\ UNCHANGED simVars

SimInit ==
    /\ pc = "idle"
    /\ stock_quantity = 0
    /\ num_days = 0
    /\ random_seed = <<>>
    /\ rng = 0
    /\ rng0 = 0
    /\ day = 0
    /\ day_type = ""
    /\ demand = 0
    /\ daily_results = <<>>
    /\ total_profit = 0
    /\ result = <<>>
    /\ error = ""
    /\ ncalls = 0
    /\ prev = <<>>

Steps ==
    \/ SampleDayType
    \/ SampleDemand
    \/ RecordDay
    \/ ReturnResult
    \/ RaiseZeroDivision

(* One call with arguments from the wide sets *)
Init ==
    /\ SimInit
    /\ forced_stock = 0
    /\ forced_demand = 0
    /\ breakdown = <<>>

Next ==
    \/ /\ CanCall(1)
       /\ \E stock \in Stocks, days \in Days, seed \in Seeds, entropy \in Entropy :
             Call(stock, days, seed, entropy, 1)
    \/ Steps

Spec == Init /\ [][Next]_vars

(* Two calls in a row with arguments from the small sets *)
NextRerun ==
    \/ /\ CanCall(2)
       /\ \E stock \in RerunStocks, days \in RerunDays, seed \in RerunSeeds,
             entropy \in Entropy :
             Call(stock, days, seed, entropy, 2)
    \/ Steps

SpecRerun == Init /\ [][NextRerun]_vars

(* calculate_profit called directly on every pair of non-negative inputs *)
InitUnit ==
    /\ SimInit
    /\ forced_stock \in 0..MaxQty
    /\ forced_demand \in 0..MaxQty
    /\ breakdown = <<>>

NextUnit == CalculateProfit

SpecUnit == InitUnit /\ [][NextUnit]_vars

----------------------------------------------------------------------------
(* Helpers of the properties *)

Records == {daily_results[i] : i \in 1..Len(daily_results)}

\* Python's == on two binary64 values
FloatEq(x, y) ==
    /\ x.kind # "nan"
    /\ y.kind # "nan"
    /\ \/ x.kind = "zero" /\ y.kind = "zero"
       \/ x = y

\* the generator state k draws after state g
RECURSIVE RngAfter(_, _)
RngAfter(g, k) == IF k = 0 THEN g ELSE random(RngAfter(g, k - 1)).rng

\* draws made so far in the current run, from the position in the loop
DrawsSoFar ==
    2 * Len(daily_results)
      + (IF pc = "demand" THEN 1 ELSE IF pc = "record" THEN 2 ELSE 0)

\* avg_profit_per_day * num_days, as the caller would compute it
RoundTrip == MultiplyInt(result[1].avg_profit_per_day, num_days)

----------------------------------------------------------------------------
(* Properties of calculate_profit, checked under SpecUnit *)

\* C1: for non-negative stock and demand, calculate_profit returns
\* sold = min(stock, demand), unsold = max(0, stock - demand),
\* lost_sales = max(0, demand - stock), revenue = 25*sold, cost = 15*stock,
\* return_value = 5*unsold, lost_profit = 10*lost_sales and
\* profit = revenue - cost + return_value - lost_profit; (100, 50) and
\* (50, 100) give the two documented breakdowns, and stock = 0 gives
\* cost = 0 and profit = -10*demand.
C1_Breakdown ==
    breakdown # <<>> =>
        LET b == breakdown[1]
            s == forced_stock
            d == forced_demand
        IN  /\ b.sold = (IF s <= d THEN s ELSE d)
            /\ b.unsold = (IF s > d THEN s - d ELSE 0)
            /\ b.lost_sales = (IF d > s THEN d - s ELSE 0)
            /\ b.revenue = 25 * b.sold
            /\ b.cost = 15 * s
            /\ b.return_value = 5 * b.unsold
            /\ b.lost_profit = 10 * b.lost_sales
            /\ b.profit = b.revenue - b.cost + b.return_value - b.lost_profit
            /\ (s = 100 /\ d = 50) =>
                  b = [sold |-> 50, unsold |-> 50, lost_sales |-> 0,
                       revenue |-> 1250, cost |-> 1500, return_value |-> 250,
                       lost_profit |-> 0, profit |-> 0]
            /\ (s = 50 /\ d = 100) =>
                  b = [sold |-> 50, unsold |-> 0, lost_sales |-> 50,
                       revenue |-> 1250, cost |-> 750, return_value |-> 0,
                       lost_profit |-> 500, profit |-> 0]
            /\ s = 0 => (b.cost = 0 /\ b.profit = 0 - 10 * d)

C1_Witness ==
    /\ breakdown # <<>>
    /\ forced_stock = 100
    /\ forced_demand = 50
    /\ breakdown[1].return_value = 250

\* C10: the profit of calculate_profit equals the per-unit formulation
\* 10*sold - 10*unsold - 10*lost_sales (profit per sale, loss per unsold and
\* lost profit per book are all 10); hence profit <= 10*stock, with equality
\* exactly when demand = stock.
C10_PerUnitProfit ==
    /\ PROFIT_PER_SALE = 10
    /\ LOSS_PER_UNSOLD = 10
    /\ LOST_PROFIT_PER_BOOK = 10
    /\ breakdown # <<>> =>
        LET b == breakdown[1]
        IN  /\ b.profit = PROFIT_PER_SALE * b.sold - LOSS_PER_UNSOLD * b.unsold
                            - LOST_PROFIT_PER_BOOK * b.lost_sales
            /\ b.profit <= 10 * forced_stock
            /\ (b.profit = 10 * forced_stock) <=> (forced_demand = forced_stock)

C10_Witness ==
    /\ breakdown # <<>>
    /\ forced_stock = 90
    /\ forced_demand = 90
    /\ breakdown[1].profit = 900

----------------------------------------------------------------------------
(* Properties of run_bookstore_simulation, checked under Spec *)

\* C3: at every point of a run, every record appended so far satisfies
\* profit = sold*25 - stock_quantity*15 + unsold*5 - lost_sales*10,
\* sold + lost_sales = demand and sold + unsold = stock_quantity.
C3_AccountingIdentity ==
    \A r \in Records :
        /\ r.profit = r.sold * 25 - stock_quantity * 15 + r.unsold * 5
                        - r.lost_sales * 10
        /\ r.sold + r.lost_sales = r.demand
        /\ r.sold + r.unsold = stock_quantity

C3_Witness ==
    /\ pc = "for"
    /\ Len(daily_results) >= 2
    /\ \E r \in Records : r.demand > stock_quantity /\ r.lost_sales > 0
    /\ \E r \in Records : r.demand < stock_quantity /\ r.sold = r.demand

\* C4: in every record, unsold > 0 implies lost_sales = 0 and lost_sales > 0
\* implies unsold = 0; both are 0 exactly when demand = stock_quantity, and
\* otherwise exactly one of them is nonzero.
C4_Exclusivity ==
    \A r \in Records :
        /\ r.unsold > 0 => r.lost_sales = 0
        /\ r.lost_sales > 0 => r.unsold = 0
        /\ (r.unsold = 0 /\ r.lost_sales = 0) <=> (r.demand = stock_quantity)
        /\ r.demand # stock_quantity => ((r.unsold # 0) # (r.lost_sales # 0))

C4_Witness ==
    /\ \E r \in Records : r.unsold > 0 /\ r.lost_sales = 0
    /\ \E r \in Records : r.lost_sales > 0 /\ r.unsold = 0
    /\ \E r \in Records : r.unsold = 0 /\ r.lost_sales = 0

\* C5 as stated: after each iteration total_profit is the sum of the
\* recorded profits, and in the returned result total_profit is that sum
\* and avg_profit_per_day * num_days == total_profit.
C5_ExactRoundTrip ==
    /\ pc \in {"for", "returned"} => total_profit = SumField(daily_results, "profit")
    /\ pc = "returned" =>
        /\ result[1].total_profit = SumField(result[1].daily_results, "profit")
        /\ FloatEq(RoundTrip, IntToFloat(total_profit))

\* C5 as amended: after each iteration total_profit is the sum of the
\* recorded profits; in the returned result total_profit is that sum and
\* avg_profit_per_day is the binary64 quotient total_profit / num_days, so
\* avg_profit_per_day * num_days is total_profit or one of its two
\* neighbouring binary64 values.
C5_TotalsConsistent ==
    /\ pc \in {"for", "returned"} => total_profit = SumField(daily_results, "profit")
    /\ pc = "returned" =>
        /\ result[1].total_profit = SumField(result[1].daily_results, "profit")
        /\ result[1].avg_profit_per_day = TrueDivide(result[1].total_profit, num_days)
        /\ \/ FloatEq(RoundTrip, IntToFloat(total_profit))
           \/ /\ total_profit # 0
              /\ RoundTrip \in {NextUp(IntToFloat(total_profit)),
                                NextDown(IntToFloat(total_profit))}

C5_Witness ==
    /\ pc = "returned"
    /\ num_days >= 2
    /\ total_profit # 0
    /\ \E r \in Records : r.profit # total_profit
    /\ ~FloatEq(RoundTrip, IntToFloat(total_profit))

\* C6: a call with num_days < 1 ends with an invalid-parameter error and
\* never returns a result dictionary.
C6_InvalidDaysRejected ==
    (pc \in Finished /\ num_days < 1) =>
        (pc = "raised" /\ error = "InvalidParameter" /\ result = <<>>)

\* C7: a call with stock_quantity < 0 ends with an invalid-parameter error,
\* without clamping and without returning a result.
C7_NegativeStockRejected ==
    (pc \in Finished /\ stock_quantity < 0) =>
        (pc = "raised" /\ error = "InvalidParameter" /\ result = <<>>)

\* C8: a run with num_days >= 1 completes and returns exactly num_days
\* records, the k-th with day = k; the returned num_days and stock_quantity
\* are the arguments and every record has cost = 15 * stock_quantity
\* (stock 90, one day: exactly one record, cost 1350).
C8_OneRecordPerDay ==
    /\ \A k \in 1..Len(daily_results) : daily_results[k].day = k
    /\ (pc \in Finished /\ num_days >= 1) =>
        /\ pc = "returned"
        /\ Len(result[1].daily_results) = num_days
        /\ \A k \in 1..num_days :
              /\ result[1].daily_results[k].day = k
              /\ result[1].daily_results[k].cost = 15 * stock_quantity
        /\ result[1].num_days = num_days
        /\ result[1].stock_quantity = stock_quantity
        /\ (stock_quantity = 90 /\ num_days = 1) =>
              /\ Len(result[1].daily_results) = 1
              /\ result[1].daily_results[1].cost = 1350

C8_Witness ==
    /\ pc = "returned"
    /\ stock_quantity = 90
    /\ num_days = 1
    /\ Len(result[1].daily_results) = 1
    /\ result[1].daily_results[1].cost = 1350

\* C9: the one generator created at the start of the run is drawn from
\* exactly twice per day, first for the day type and then for the demand
\* out of that day type's distribution, and is never re-created in between;
\* every record's demand is one of 50..110 with nonzero probability under
\* the record's day type.
C9_TwoDrawsPerDay ==
    pc \notin {"idle"} =>
        /\ rng = RngAfter(rng0, DrawsSoFar)
        /\ pc \in {"demand", "record"} =>
              day_type = choice(DayTypeKeys, DAY_TYPE_PROBS,
                                random(RngAfter(rng0, 2 * Len(daily_results))).u)
        /\ pc = "record" =>
              demand = choice(DemandKeys, DEMAND_DISTRIBUTIONS[day_type],
                              random(RngAfter(rng0, 2 * Len(daily_results) + 1)).u)
        /\ \A k \in 1..Len(daily_results) :
              LET r == daily_results[k]
              IN  /\ r.day_type \in {"High", "Medium", "Low"}
                  /\ r.day_type = choice(DayTypeKeys, DAY_TYPE_PROBS,
                                         random(RngAfter(rng0, 2 * k - 2)).u)
                  /\ r.demand = choice(DemandKeys, DEMAND_DISTRIBUTIONS[r.day_type],
                                       random(RngAfter(rng0, 2 * k - 1)).u)
                  /\ r.demand \in {50, 60, 70, 80, 90, 100, 110}
                  /\ DEMAND_DISTRIBUTIONS[r.day_type][r.demand] > 0

C9_Witness ==
    /\ pc = "record"
    /\ Len(daily_results) >= 2
    /\ \E r \in Records : r.day_type = "Low"
    /\ \E r \in Records : r.day_type = "Medium"
    /\ day_type = "High"
    /\ rng # rng0

----------------------------------------------------------------------------
(* Property of two calls in a row, checked under SpecRerun *)

\* C2: two calls with the same stock_quantity, num_days and integer seed
\* end the same way with identical results (every record, total_profit and
\* every average); nothing left by the earlier run changes the later one.
C2_Deterministic ==
    (/\ pc \in Finished
     /\ prev # <<>>
     /\ random_seed # <<>>
     /\ prev[1].stock_quantity = stock_quantity
     /\ prev[1].num_days = num_days
     /\ prev[1].random_seed = random_seed)
    => (/\ prev[1].pc = pc
        /\ prev[1].result = result
        /\ prev[1].error = error)

C2_Witness ==
    /\ pc = "returned"
    /\ prev # <<>>
    /\ random_seed # <<>>
    /\ num_days >= 2
    /\ prev[1].stock_quantity = stock_quantity
    /\ prev[1].num_days = num_days
    /\ prev[1].random_seed = random_seed
    /\ prev[1].result = result

====
